---- MODULE Spec2Model ----
(***************************************************************************)
(* Order placement, compensation and cancellation of the e-commerce        *)
(* simulation: Inventory / Product stock counters, PaymentProcessor,       *)
(* OrderServices.submit_order, OrderServices.cancel_order and               *)
(* User.place_order.  Calls run on threads; a step of the model is one     *)
(* read or write of shared state (a product's stock, an order's status, a  *)
(* user's order_history) together with the local computation around it.   *)
(***************************************************************************)
EXTENDS Integers, Sequences, FiniteSets, TLC

\* ---------------------------------------------------------------- bounds
MaxStock == 1       \* largest stock a product is created with
MaxQty == 1         \* largest quantity of one cart line
MaxOrders == 2      \* orders stored over all users before submissions stop
MaxRefs == 1        \* distinct random suffixes the gateway draws from
MaxCalls == 3       \* calls made one after the other in one run
ConcCalls == 3      \* calls made in one run with calls overlapping
MaxUses == 1        \* max_uses of the coupon
MaxFuncs == 3       \* rollback functions registered with one TransactionContext
MaxCartQty == 2     \* largest quantity of a line of the edited cart
CartCalls == 2      \* submit_order and cancel_order calls around the edited cart
MaxCapacity == 2    \* largest capacity an LRUCache is built with
MaxOps == 4         \* get and set calls made on the LRUCache

\* ------------------------------------------------------- program constants
RefLow == 1000      \* random.randint(1000, 9999) lower end

Threads == {1, 2}
Products == {1, 2}
Users == {101, 102}
NoRef == 0   \* the order object has no payment_ref attribute
NoOrder == 0        \* next(..., None) found nothing

Price == [p \in Products |-> IF p = 1 THEN 3 ELSE 2]

RequiredFields == {"method", "card_number", "cvv"}
PaymentInfos == {RequiredFields, {"method", "card_number"}}

PayRefs == RefLow .. (RefLow + MaxRefs - 1)

\* carts: ordered lines <<pid, qty>> over distinct products (dict insertion order)
Line == Products \X (1..MaxQty)
Carts ==
  {<<>>} \cup {<<l>> : l \in Line}
         \cup {<<q[1], q[2]>> : q \in {x \in Line \X Line : x[1][1] # x[2][1]}}

\* identity "ORD-{user_id}-{n}"
OrderIds == Users \X (1..MaxOrders)

VARIABLES
  stock,          \* Product.stock of each product held by Inventory.products
  initial_stock,  \* the stock each Product was constructed with
  order_history,  \* User.order_history, a list of orders per user
  pc,             \* position of each thread inside its call
  frame,          \* local variables of the call a thread runs
  issued,         \* payment ids returned by process_payment, per id
  refunds,        \* refund_payment invocations, <<payment_ref, amount>>
  pre,            \* what a sequential caller saw just before its call
  calls,          \* number of calls made so far
  catalog,        \* keys of Inventory.products
  coupon,         \* the Coupon object and the users whose cart carries it
  tx,             \* a TransactionContext and the with-block around it
  the_cart,   \* a Cart object: its items dict and the calls made on it
  lru             \* an LRUCache object and the calls made on it

vars ==
  <<stock, initial_stock, order_history, pc, frame, issued, refunds, pre, calls,
    catalog, coupon, tx, the_cart, lru>>

\* ------------------------------------------------------------ pure helpers
RECURSIVE SumSeq(_)
SumSeq(s) == IF s = <<>> THEN 0 ELSE Head(s) + SumSeq(Tail(s))

Max(a, b) == IF a >= b THEN a ELSE b

\* Cart.calculate_subtotal
calculate_subtotal(cart) ==
  SumSeq([k \in 1..Len(cart) |-> Price[cart[k][1]] * cart[k][2]])

\* Cart.calculate_total (no coupon applied)
calculate_total(cart) == Max(0, calculate_subtotal(cart))

\* Coupon: fixed discount, no minimum order value, no category list
CouponValue == 1

\* Coupon.is_valid: is_active, the validity window, max_uses
is_valid(c) == ~c.expired /\ c.usage_count < MaxUses

\* Coupon.get_discount
get_discount(c, cart) ==
  IF is_valid(c)
  THEN (IF CouponValue <= calculate_subtotal(cart)
        THEN CouponValue ELSE calculate_subtotal(cart))
  ELSE 0

\* Cart.calculate_total of the cart of a user, with the coupon if applied to it
CartTotal(c, user, cart) ==
  IF user \in c.applied
  THEN Max(0, calculate_subtotal(cart) - get_discount(c, cart))
  ELSE calculate_total(cart)

\* variant of is_in_stock: the last units are never given out
is_in_stock_strict(s, quantity) == quantity < s

\* Product.is_in_stock
is_in_stock(s, quantity) == quantity <= s

\* PaymentProcessor.validate_payment_info
validate_payment_info(payment_info) == \A f \in RequiredFields : f \in payment_info

\* variant of from_cart: items=cart.items, the order holds the cart's own dict
from_cart_shared(order_id, cart) ==
  [order_id |-> order_id, items |-> cart, own_items |-> FALSE,
   total |-> calculate_total(cart), status |-> "Placed", payment_ref |-> NoRef]

\* Order.from_cart; items=cart.items.copy() is a dict object of the order's
\* own (own_items), holding the lines the cart has at this moment
from_cart(order_id, cart) ==
  [order_id |-> order_id, items |-> cart, own_items |-> TRUE,
   total |-> calculate_total(cart), status |-> "Placed", payment_ref |-> NoRef]

\* quantity of product p in a list of lines
QtyOf(lines, p) ==
  SumSeq([k \in 1..Len(lines) |-> IF lines[k][1] = p THEN lines[k][2] ELSE 0])

\* variant of FindOrder: the first stored order is taken whatever its identity
FindOrderFirst(hist, order_id) == IF hist = <<>> THEN NoOrder ELSE 1

\* next((o for o in user.order_history if o.order_id == order_id), None)
FindOrder(hist, order_id) ==
  IF \E k \in 1..Len(hist) : hist[k].order_id = order_id
  THEN CHOOSE k \in 1..Len(hist) :
         /\ hist[k].order_id = order_id
         /\ \A j \in 1..(k-1) : hist[j].order_id # order_id
  ELSE NoOrder

\* number of orders stored over all users
TotalOrders ==
  Cardinality(UNION {{u} \X (1..Len(order_history[u])) : u \in Users})

IdleFrame ==
  [op |-> "none", user |-> 0, cart |-> <<>>, payment_info |-> {},
   order_id |-> <<0, 0>>, i |-> 0, reserved |-> <<>>, rel |-> <<>>, j |-> 0,
   tmp |-> 0, payment_ref |-> NoRef, order |-> NoOrder, charged |-> FALSE,
   deducted |-> <<>>, amount |-> 0, result |-> "none", why |-> "none"]

\* TransactionContext(): no rollback function, the with-block not entered
NewTx == [rollback_funcs |-> <<>>, phase |-> "new", k |-> 0, called |-> <<>>,
          error |-> "none"]

\* Cart(cart_id, user_id): no line; deleted is the product whose line the
\* latest add_item, remove_item or update_quantity took out (del self.items[pid])
NewCart == [items |-> <<>>, deleted |-> 0]

\* keys and values given to the cache; None is what a missed get returns
Keys == 1..(MaxCapacity + 1)
Values == {1, 2}
NoValue == 0

\* an LRUCache before its constructor ran: cache is the OrderedDict, oldest
\* entry first; used is the moment of each key's last hit or set; last is the
\* latest call, what it returned and what its popitem took out
NoCache ==
  [built |-> FALSE, capacity |-> 0, cache |-> <<>>, used |-> [k \in Keys |-> 0],
   clock |-> 0, last |-> [op |-> "none", key |-> 0, ret |-> NoValue, popped |-> 0]]

Init ==
  /\ initial_stock \in [Products -> 0..MaxStock]
  /\ stock = initial_stock
  /\ order_history = [u \in Users |-> <<>>]
  /\ pc = [t \in Threads |-> "idle"]
  /\ frame = [t \in Threads |-> IdleFrame]
  /\ issued = [r \in PayRefs |-> 0]
  /\ refunds = <<>>
  /\ pre = [stock |-> stock, refunds |-> 0, orders |-> 0]
  /\ calls = 0
  /\ catalog = Products
  /\ coupon = [usage_count |-> 0, expired |-> FALSE, applied |-> {}]
  /\ tx = NewTx
  /\ the_cart = NewCart
  /\ lru = NoCache

\* submissions still running (each may add one order)
InFlightSubmits == Cardinality({t \in Threads : frame[t].op = "submit" /\ pc[t] # "done"})

SetFrame(t, f) == frame' = [frame EXCEPT ![t] = f]

\* the call is over: its loop counters and scratch values are dead
Finish(t, f, result, why) ==
  /\ SetFrame(t, [f EXCEPT !.result = result, !.why = why, !.i = 0, !.j = 0,
                           !.tmp = 0, !.rel = <<>>, !.payment_info = {},
                           !.deducted = <<>>, !.amount = 0])
  /\ pc' = [pc EXCEPT ![t] = "done"]
Goto(t, label) == pc' = [pc EXCEPT ![t] = label]

\* ------------------------------------------------ OrderServices.submit_order
\* variant of SubmitOrder: no empty-cart guard, the loop over no line is left
\* at once and the charge comes next
SubmitOrderNoEmptyGuard(t, user, cart, payment_info) ==
  /\ pc[t] = "idle"
  /\ calls' = calls + 1
  /\ TotalOrders + InFlightSubmits < MaxOrders
  /\ SetFrame(t, [IdleFrame EXCEPT !.op = "submit", !.user = user, !.cart = cart,
                                   !.payment_info = payment_info, !.i = 1])
  /\ Goto(t, IF cart = <<>> THEN "process_payment" ELSE "reserve_stock")
  /\ UNCHANGED <<stock, initial_stock, catalog, coupon, tx, the_cart, lru, order_history, issued, refunds>>

\* entry: the empty-cart guard, reserved = []
SubmitOrder(t, user, cart, payment_info) ==
  /\ pc[t] = "idle"
  /\ calls' = calls + 1
  /\ TotalOrders + InFlightSubmits < MaxOrders
  /\ LET f == [IdleFrame EXCEPT !.op = "submit", !.user = user, !.cart = cart,
                                !.payment_info = payment_info, !.i = 1]
     IN IF cart = <<>>
        THEN Finish(t, f, "None", "EmptyCart")
        ELSE /\ SetFrame(t, f)
             /\ Goto(t, "reserve_stock")
  /\ UNCHANGED <<stock, initial_stock, catalog, coupon, tx, the_cart, lru, order_history, issued, refunds>>

\* variant of Compensate: the handler returns None without the release loop
CompensateNoRelease(t, f, why) == Finish(t, f, "None", why)

\* except (OutOfStockError, PaymentFailedError): start of the release loop
Compensate(t, f, why) ==
  IF f.reserved = <<>>
  THEN Finish(t, f, "None", why)
  ELSE /\ SetFrame(t, [f EXCEPT !.why = why, !.rel = f.reserved, !.j = 1])
       /\ Goto(t, "restock_load")

\* variant of Reserved: the loop is left after its first turn
ReservedFirstLineOnly(t, f) ==
  LET g == [f EXCEPT !.reserved = Append(f.reserved, f.cart[f.i]), !.i = f.i + 1]
  IN /\ SetFrame(t, [g EXCEPT !.tmp = 0])
     /\ Goto(t, "process_payment")

\* reserve_stock returned: reserved.append((pid, qty)) and the loop's next turn
Reserved(t, f) ==
  LET g == [f EXCEPT !.reserved = Append(f.reserved, f.cart[f.i]), !.i = f.i + 1]
  IN /\ SetFrame(t, [g EXCEPT !.tmp = 0])
     /\ Goto(t, IF g.i > Len(g.cart) THEN "process_payment" ELSE "reserve_stock")

\* Inventory.reserve_stock: the lookup and the availability test
ReserveStock(t) ==
  /\ pc[t] = "reserve_stock"
  /\ LET f == frame[t]
         pid == f.cart[f.i][1]
         qty == f.cart[f.i][2]
     IN IF pid \notin catalog \/ ~is_in_stock(stock[pid], qty)
        THEN Compensate(t, f, "OutOfStock")
        ELSE /\ Goto(t, "deduct_stock")
             /\ UNCHANGED frame
  /\ UNCHANGED <<stock, initial_stock, catalog, coupon, tx, the_cart, lru, order_history, issued, refunds, pre, calls>>

\* Product.deduct_stock: its own test; the result is not looked at by the caller
DeductStock(t) ==
  /\ pc[t] = "deduct_stock"
  /\ LET f == frame[t]
         pid == f.cart[f.i][1]
         qty == f.cart[f.i][2]
     IN IF qty <= stock[pid]
        THEN /\ Goto(t, "deduct_load")
             /\ UNCHANGED frame
        ELSE Reserved(t, f)
  /\ UNCHANGED <<stock, initial_stock, catalog, coupon, tx, the_cart, lru, order_history, issued, refunds, pre, calls>>

\* self.stock -= quantity: the read
DeductLoad(t) ==
  /\ pc[t] = "deduct_load"
  /\ SetFrame(t, [frame[t] EXCEPT !.tmp = stock[frame[t].cart[frame[t].i][1]]])
  /\ Goto(t, "deduct_store")
  /\ UNCHANGED <<stock, initial_stock, catalog, coupon, tx, the_cart, lru, order_history, issued, refunds, pre, calls>>

\* variant of DeductStore: the difference is not written to Product.stock
DeductStoreNoWrite(t) ==
  /\ pc[t] = "deduct_store"
  /\ LET f == frame[t]
     IN Reserved(t, [f EXCEPT !.deducted = Append(f.deducted, f.cart[f.i])])
  /\ UNCHANGED <<stock, initial_stock, catalog, coupon, tx, the_cart, lru, order_history, issued, refunds, pre, calls>>

\* self.stock -= quantity: the write
DeductStore(t) ==
  /\ pc[t] = "deduct_store"
  /\ LET f == frame[t]
         pid == f.cart[f.i][1]
         qty == f.cart[f.i][2]
     IN /\ stock' = [stock EXCEPT ![pid] = f.tmp - qty]
        /\ Reserved(t, [f EXCEPT !.deducted = Append(f.deducted, f.cart[f.i])])
  /\ UNCHANGED <<initial_stock, catalog, coupon, tx, the_cart, lru, order_history, issued, refunds, pre, calls>>

\* PaymentProcessor.process_payment, called on Order.from_cart("preview", cart).
\* Outcomes: a payment id, PaymentFailedError (invalid details or the gateway
\* declining), or an exception of another class raised by the logger(...) call
\* that opens the method (Utils.logger.logger is a logging.Logger object).
ProcessPayment(t) ==
  /\ pc[t] = "process_payment"
  /\ LET f == [frame[t] EXCEPT
                !.charged = TRUE,
                !.amount = CartTotal(coupon, frame[t].user, frame[t].cart)]
     IN \/ \* logger(...) raises: not caught by submit_order, reserved is lost
           /\ Finish(t, f, "Raised", "TypeError")
           /\ UNCHANGED issued
        \/ \* invalid details, or random.random() >= success_rate
           /\ Compensate(t, f, "PaymentDeclined")
           /\ UNCHANGED issued
        \/ \* random.random() < success_rate
           /\ validate_payment_info(f.payment_info)
           /\ \E r \in PayRefs :
                /\ issued' = [issued EXCEPT ![r] = @ + 1]
                /\ SetFrame(t, [f EXCEPT !.payment_ref = r])
                /\ Goto(t, "create_order")
  /\ UNCHANGED <<stock, initial_stock, catalog, coupon, tx, the_cart, lru, order_history, refunds, pre, calls>>

\* order_id from len(user.order_history), Order.from_cart, payment_ref, status
CreateOrder(t) ==
  /\ pc[t] = "create_order"
  /\ LET f == frame[t]
         order_id == <<f.user, Len(order_history[f.user]) + 1>>
     IN SetFrame(t, [f EXCEPT !.order_id = order_id])
  /\ Goto(t, "append_order")
  /\ UNCHANGED <<stock, initial_stock, catalog, coupon, tx, the_cart, lru, order_history, issued, refunds, pre, calls>>

\* variant of AppendOrder: the new order takes the place of the stored ones
AppendOrderReplaces(t) ==
  /\ pc[t] = "append_order"
  /\ LET f == frame[t]
         order == [from_cart(f.order_id, f.cart) EXCEPT
                     !.total = CartTotal(coupon, f.user, f.cart),
                     !.payment_ref = f.payment_ref, !.status = "Paid"]
     IN /\ order_history' = [order_history EXCEPT ![f.user] = <<order>>]
        /\ Finish(t, f, "Order", "none")
  /\ UNCHANGED <<stock, initial_stock, catalog, coupon, tx, the_cart, lru, issued, refunds, pre, calls>>

\* user.order_history.append(order); return order
AppendOrder(t) ==
  /\ pc[t] = "append_order"
  /\ LET f == frame[t]
         order == [from_cart(f.order_id, f.cart) EXCEPT
                     !.total = CartTotal(coupon, f.user, f.cart),
                     !.payment_ref = f.payment_ref, !.status = "Paid"]
     IN /\ order_history' = [order_history EXCEPT ![f.user] = Append(@, order)]
        /\ Finish(t, f, "Order", "none")
  /\ UNCHANGED <<stock, initial_stock, catalog, coupon, tx, the_cart, lru, issued, refunds, pre, calls>>

\* ------------------------------------------------- Inventory.release_stock
\* the lookup of release_stock (a product not in the inventory is passed
\* over), then Product.restock, self.stock += quantity: the read
RestockLoad(t) ==
  /\ pc[t] = "restock_load"
  /\ LET f == frame[t]
         pid == f.rel[f.j][1]
         g == [f EXCEPT !.j = f.j + 1, !.tmp = 0]
     IN IF pid \in catalog
        THEN /\ SetFrame(t, [f EXCEPT !.tmp = stock[pid]])
             /\ Goto(t, "restock_store")
        ELSE IF g.j <= Len(g.rel)
             THEN /\ SetFrame(t, g)
                  /\ Goto(t, "restock_load")
             ELSE IF g.op = "submit"
                  THEN Finish(t, g, "None", g.why)
                  ELSE /\ SetFrame(t, g)
                       /\ Goto(t, "refund")
  /\ UNCHANGED <<stock, initial_stock, catalog, coupon, tx, the_cart, lru, order_history, issued, refunds, pre, calls>>

\* variant of RestockStore: the write puts back the value read, nothing added
RestockStoreNoAdd(t) ==
  /\ pc[t] = "restock_store"
  /\ LET f == frame[t]
         pid == f.rel[f.j][1]
         g == [f EXCEPT !.j = f.j + 1, !.tmp = 0]
     IN /\ stock' = [stock EXCEPT ![pid] = f.tmp]
        /\ IF g.j <= Len(g.rel)
           THEN /\ SetFrame(t, g)
                /\ Goto(t, "restock_load")
           ELSE IF g.op = "submit"
                THEN Finish(t, g, "None", g.why)
                ELSE /\ SetFrame(t, g)
                     /\ Goto(t, "refund")
  /\ UNCHANGED <<initial_stock, catalog, coupon, tx, the_cart, lru, order_history, issued, refunds, pre, calls>>

\* Product.restock, self.stock += quantity: the write, then the loop's next turn
RestockStore(t) ==
  /\ pc[t] = "restock_store"
  /\ LET f == frame[t]
         pid == f.rel[f.j][1]
         qty == f.rel[f.j][2]
         g == [f EXCEPT !.j = f.j + 1, !.tmp = 0]
     IN /\ stock' = [stock EXCEPT ![pid] = f.tmp + qty]
        /\ IF g.j <= Len(g.rel)
           THEN /\ SetFrame(t, g)
                /\ Goto(t, "restock_load")
           ELSE IF g.op = "submit"
                THEN Finish(t, g, "None", g.why)
                ELSE /\ SetFrame(t, g)
                     /\ Goto(t, "refund")
  /\ UNCHANGED <<initial_stock, catalog, coupon, tx, the_cart, lru, order_history, issued, refunds, pre, calls>>

\* ------------------------------------------------ OrderServices.cancel_order
\* variant of CancelOrder: the status guard is missing
CancelOrderNoStatusGuard(t, user, order_id) ==
  /\ pc[t] = "idle"
  /\ calls' = calls + 1
  /\ LET k == FindOrder(order_history[user], order_id)
         f == [IdleFrame EXCEPT !.op = "cancel", !.user = user,
                                !.order_id = order_id, !.order = k]
     IN IF k = NoOrder
        THEN Finish(t, f, "False", "OrderNotFound")
        ELSE /\ SetFrame(t, f)
             /\ Goto(t, "update_status")
  /\ UNCHANGED <<stock, initial_stock, catalog, coupon, tx, the_cart, lru, order_history, issued, refunds>>

\* variant of CancelOrder: an identity the user does not hold is looked up in
\* the other users' histories and the order found there is set to Cancelled
CancelOrderAnyUser(t, user, order_id) ==
  /\ pc[t] = "idle"
  /\ calls' = calls + 1
  /\ LET k == FindOrder(order_history[user], order_id)
         holders == {v \in Users : FindOrder(order_history[v], order_id) # NoOrder}
         f == [IdleFrame EXCEPT !.op = "cancel", !.user = user,
                                !.order_id = order_id, !.order = k]
     IN IF k = NoOrder
        THEN IF holders = {}
             THEN /\ Finish(t, f, "False", "OrderNotFound")
                  /\ UNCHANGED order_history
             ELSE LET v == CHOOSE w \in holders : TRUE
                      n == FindOrder(order_history[v], order_id)
                  IN /\ order_history' =
                          [order_history EXCEPT ![v][n].status = "Cancelled"]
                     /\ Finish(t, f, "True", "none")
        ELSE /\ UNCHANGED order_history
             /\ IF order_history[user][k].status = "Cancelled"
                THEN Finish(t, f, "False", "OrderAlreadyCancelled")
                ELSE /\ SetFrame(t, f)
                     /\ Goto(t, "update_status")
  /\ UNCHANGED <<stock, initial_stock, catalog, coupon, tx, the_cart, lru, issued, refunds>>

\* entry: the lookup and the two guards
CancelOrder(t, user, order_id) ==
  /\ pc[t] = "idle"
  /\ calls' = calls + 1
  /\ LET k == FindOrder(order_history[user], order_id)
         f == [IdleFrame EXCEPT !.op = "cancel", !.user = user,
                                !.order_id = order_id, !.order = k]
     IN IF k = NoOrder
        THEN Finish(t, f, "False", "OrderNotFound")
        ELSE IF order_history[user][k].status = "Cancelled"
             THEN Finish(t, f, "False", "OrderAlreadyCancelled")
             ELSE /\ SetFrame(t, f)
                  /\ Goto(t, "update_status")
  /\ UNCHANGED <<stock, initial_stock, catalog, coupon, tx, the_cart, lru, order_history, issued, refunds>>

\* variant of UpdateStatus: the refund comes before the release loop has run
UpdateStatusSkipsRelease(t) ==
  /\ pc[t] = "update_status"
  /\ LET f == frame[t]
         items == order_history[f.user][f.order].items
     IN /\ order_history' =
             [order_history EXCEPT ![f.user][f.order].status = "Cancelled"]
        /\ SetFrame(t, [f EXCEPT !.rel = items, !.j = 1])
        /\ Goto(t, "refund")
  /\ UNCHANGED <<stock, initial_stock, catalog, coupon, tx, the_cart, lru, issued, refunds, pre, calls>>

\* order.update_status("Cancelled"), then the release loop over order.items
UpdateStatus(t) ==
  /\ pc[t] = "update_status"
  /\ LET f == frame[t]
         items == order_history[f.user][f.order].items
     IN /\ order_history' =
             [order_history EXCEPT ![f.user][f.order].status = "Cancelled"]
        /\ SetFrame(t, [f EXCEPT !.rel = items, !.j = 1])
        /\ Goto(t, IF items = <<>> THEN "refund" ELSE "restock_load")
  /\ UNCHANGED <<stock, initial_stock, catalog, coupon, tx, the_cart, lru, issued, refunds, pre, calls>>

\* variant of Refund: no try/except, the exception of refund_payment leaves
\* cancel_order
RefundPropagates(t) ==
  /\ pc[t] = "refund"
  /\ LET f == frame[t]
         order == order_history[f.user][f.order]
     IN IF order.payment_ref # NoRef
        THEN /\ refunds' = Append(refunds, <<order.payment_ref, order.total>>)
             /\ \/ Finish(t, f, "True", "none")
                \/ Finish(t, f, "Raised", "RefundFailed")
        ELSE /\ UNCHANGED refunds
             /\ Finish(t, f, "True", "none")
  /\ UNCHANGED <<stock, initial_stock, catalog, coupon, tx, the_cart, lru, order_history, issued, pre, calls>>

\* hasattr(order, "payment_ref"): refund_payment inside try/except Exception
Refund(t) ==
  /\ pc[t] = "refund"
  /\ LET f == frame[t]
         order == order_history[f.user][f.order]
     IN IF order.payment_ref # NoRef
        THEN /\ refunds' = Append(refunds, <<order.payment_ref, order.total>>)
             /\ \/ Finish(t, f, "True", "none")
                \/ \* refund_payment raised: logged, not propagated
                   Finish(t, f, "True", "RefundFailed")
        ELSE /\ UNCHANGED refunds
             /\ Finish(t, f, "True", "none")
  /\ UNCHANGED <<stock, initial_stock, catalog, coupon, tx, the_cart, lru, order_history, issued, pre, calls>>

\* the call returns to its caller; the thread is free for the next call
Return(t) ==
  /\ pc[t] = "done"
  /\ SetFrame(t, IdleFrame)
  /\ Goto(t, "idle")
  /\ UNCHANGED <<stock, initial_stock, catalog, coupon, tx, the_cart, lru, order_history, issued, refunds, pre, calls>>

Quiescent == \A t \in Threads : pc[t] = "idle"

\* the steps inside a call
Step(t) ==
  \/ ReserveStock(t) \/ DeductStock(t) \/ DeductLoad(t) \/ DeductStore(t)
  \/ ProcessPayment(t) \/ CreateOrder(t) \/ AppendOrder(t)
  \/ RestockLoad(t) \/ RestockStore(t)
  \/ UpdateStatus(t) \/ Refund(t) \/ Return(t)

\* threads are interchangeable: a call is given to the first free one
FirstFree(t) == \A u \in Threads : u < t => pc[u] # "idle"

\* inputs of the overlapping runs: one requester
ConcUsers == {101}
ConcOrderIds == {id \in OrderIds : id[1] \in ConcUsers}

ConcSubmit(t) ==
  \E u \in ConcUsers, cart \in Carts :
    /\ calls < ConcCalls /\ FirstFree(t)
    /\ SubmitOrder(t, u, cart, RequiredFields) /\ UNCHANGED pre

ConcCancel(t) ==
  \E u \in ConcUsers, order_id \in ConcOrderIds :
    /\ calls < ConcCalls /\ FirstFree(t)
    /\ CancelOrder(t, u, order_id) /\ UNCHANGED pre

\* calls of submit_order and cancel_order running concurrently
Next == \E t \in Threads : ConcSubmit(t) \/ ConcCancel(t) \/ Step(t)

Spec == Init /\ [][Next]_vars

\* what the caller of a sequential call can see before it calls
Observe ==
  pre' = [stock |-> stock, refunds |-> Len(refunds), orders |-> TotalOrders]

\* one call at a time: a call starts only when no other is running
SeqSubmit(t) ==
  \E u \in Users, cart \in Carts, payment_info \in PaymentInfos :
    /\ calls < MaxCalls /\ Quiescent /\ FirstFree(t)
    /\ SubmitOrder(t, u, cart, payment_info) /\ Observe

SeqCancel(t) ==
  \E u \in Users, order_id \in OrderIds :
    /\ calls < MaxCalls /\ Quiescent /\ FirstFree(t)
    /\ CancelOrder(t, u, order_id) /\ Observe

SeqNext == \E t \in Threads : SeqSubmit(t) \/ SeqCancel(t) \/ Step(t)

SeqSpec == Init /\ [][SeqNext]_vars

\* ------------------------------------------------------- User.place_order
\* Order.from_cart(order_id, self.the_cart) appended to order_history; the
\* caller supplies order_id, the cart is whatever the_cart holds
PlaceOrder(user, order_id, cart) ==
  /\ TotalOrders < MaxOrders
  /\ calls' = calls + 1
  /\ order_history' =
       [order_history EXCEPT ![user] =
          Append(@, [from_cart(order_id, cart) EXCEPT
                       !.total = CartTotal(coupon, user, cart)])]
  /\ UNCHANGED <<stock, initial_stock, catalog, coupon, tx, the_cart, lru, pc, frame, issued, refunds>>

SeqPlaceOrder ==
  \E u \in Users, order_id \in OrderIds, cart \in Carts :
    /\ calls < MaxCalls /\ Quiescent
    /\ PlaceOrder(u, order_id, cart) /\ Observe

\* sequential calls of submit_order, cancel_order and User.place_order
UserNext == SeqNext \/ SeqPlaceOrder

UserSpec == Init /\ [][UserNext]_vars

\* ------------------------------------------- carts built by Cart(items=...)
\* quantities the Cart constructor takes over unchecked (add_item and
\* update_quantity keep a line's quantity positive, the constructor does not)
RawQty == {-1, 0}
RawCarts == {<<<<p, q>>>> : p \in Products, q \in RawQty}

RawSubmit(t) ==
  \E u \in Users, cart \in RawCarts :
    /\ calls < MaxCalls /\ Quiescent /\ FirstFree(t)
    /\ SubmitOrder(t, u, cart, RequiredFields) /\ Observe

\* sequential calls, submit_order also given carts with such lines
RawNext == SeqNext \/ \E t \in Threads : RawSubmit(t)

RawSpec == Init /\ [][RawNext]_vars

\* ------------------------------ Inventory.remove_product / add_product
\* the rest of the state a call outside OrderServices leaves alone
Services == <<stock, initial_stock, order_history, pc, frame, issued, refunds>>

\* del self.products[product_id]
RemoveProduct(p) ==
  /\ calls < MaxCalls /\ Quiescent
  /\ p \in catalog
  /\ catalog' = catalog \ {p}
  /\ calls' = calls + 1
  /\ Observe
  /\ UNCHANGED <<Services, the_cart, lru, coupon, tx>>

\* self.products[product.product_id] = product, for a product taken out before
AddProduct(p) ==
  /\ calls < MaxCalls /\ Quiescent
  /\ p \notin catalog
  /\ catalog' = catalog \cup {p}
  /\ calls' = calls + 1
  /\ Observe
  /\ UNCHANGED <<Services, the_cart, lru, coupon, tx>>

InvSubmit(t) ==
  \E u \in ConcUsers, cart \in Carts :
    /\ calls < MaxCalls /\ Quiescent /\ FirstFree(t)
    /\ SubmitOrder(t, u, cart, RequiredFields) /\ Observe

InvCancel(t) ==
  \E u \in ConcUsers, order_id \in ConcOrderIds :
    /\ calls < MaxCalls /\ Quiescent /\ FirstFree(t)
    /\ CancelOrder(t, u, order_id) /\ Observe

InvRemove == \E p \in Products : RemoveProduct(p)
InvAdd == \E p \in Products : AddProduct(p)

\* sequential calls of one requester, with products taken out of the
\* inventory and put back between them
InvNext ==
  \/ \E t \in Threads : InvSubmit(t) \/ InvCancel(t) \/ Step(t)
  \/ InvRemove \/ InvAdd

InvSpec == Init /\ [][InvNext]_vars

\* ------------------------------------------------------------- the coupon
\* Cart.apply_coupon on the cart of a user
ApplyCoupon(u) ==
  /\ Quiescent
  /\ u \notin coupon.applied
  /\ coupon' = [coupon EXCEPT !.applied = @ \cup {u}]
  /\ UNCHANGED <<Services, the_cart, lru, pre, calls, catalog, tx>>

\* datetime.now() passes valid_until, at any moment
Expire ==
  /\ ~coupon.expired
  /\ coupon' = [coupon EXCEPT !.expired = TRUE]
  /\ UNCHANGED <<Services, the_cart, lru, pre, calls, catalog, tx>>

CouponApply == \E u \in Users : ApplyCoupon(u)

\* sequential calls with carts that may carry the coupon
CouponNext == SeqNext \/ CouponApply \/ Expire

CouponSpec == Init /\ [][CouponNext]_vars

\* ------------------------------------------------------ TransactionContext
FuncIds == 1..MaxFuncs

\* add_rollback(func)
TxAddRollback(fn) ==
  /\ tx.phase \in {"new", "body"}
  /\ Len(tx.rollback_funcs) < MaxFuncs
  /\ tx' = [tx EXCEPT !.rollback_funcs = Append(@, fn)]
  /\ UNCHANGED <<Services, the_cart, lru, pre, calls, catalog, coupon>>

\* __enter__
TxEnter ==
  /\ tx.phase = "new"
  /\ tx' = [tx EXCEPT !.phase = "body"]
  /\ UNCHANGED <<Services, the_cart, lru, pre, calls, catalog, coupon>>

\* the body ends normally: __exit__(None, None, None)
TxBodyReturns ==
  /\ tx.phase = "body"
  /\ tx' = [tx EXCEPT !.phase = "committed"]
  /\ UNCHANGED <<Services, the_cart, lru, pre, calls, catalog, coupon>>

\* the body raises: __exit__(exc_type, ...) starts reversed(self.rollback_funcs)
TxBodyRaises ==
  /\ tx.phase = "body"
  /\ tx' = [tx EXCEPT !.phase = "rollback", !.error = "body",
                      !.k = Len(tx.rollback_funcs)]
  /\ UNCHANGED <<Services, the_cart, lru, pre, calls, catalog, coupon>>

\* func(): the rollback function returns, or raises and so ends the loop
TxRollback ==
  /\ tx.phase = "rollback" /\ tx.k >= 1
  /\ LET called == Append(tx.called, tx.rollback_funcs[tx.k])
     IN \/ tx' = [tx EXCEPT !.called = called, !.k = tx.k - 1]
        \/ tx' = [tx EXCEPT !.called = called, !.k = 0, !.phase = "propagated",
                            !.error = "rollback"]
  /\ UNCHANGED <<Services, the_cart, lru, pre, calls, catalog, coupon>>

\* __exit__ returns None: the exception of the body goes on to the caller
TxExit ==
  /\ tx.phase = "rollback" /\ tx.k = 0
  /\ tx' = [tx EXCEPT !.phase = "propagated"]
  /\ UNCHANGED <<Services, the_cart, lru, pre, calls, catalog, coupon>>

TxAdd == \E fn \in FuncIds : TxAddRollback(fn)

TxNext ==
  TxAdd \/ TxEnter \/ TxBodyReturns \/ TxBodyRaises \/ TxRollback \/ TxExit

TxSpec == Init /\ [][TxNext]_vars

\* ---------------------------------------------------------------- Cart
\* cart.items as the list of its lines <<pid, quantity>> in insertion order
HasLine(items, pid) == \E k \in 1..Len(items) : items[k][1] = pid

\* del self.items[pid]
DelLine(items, pid) == SelectSeq(items, LAMBDA l : l[1] # pid)

\* self.items[pid] = (product, quantity): a present key keeps its place
SetLine(items, pid, quantity) ==
  IF HasLine(items, pid)
  THEN [k \in 1..Len(items) |->
          IF items[k][1] = pid THEN <<pid, quantity>> ELSE items[k]]
  ELSE Append(items, <<pid, quantity>>)

\* variant of add_item: a new line is inserted whatever its quantity
add_item_any(items, pid, quantity) ==
  IF HasLine(items, pid)
  THEN LET new_qty == QtyOf(items, pid) + quantity
       IN IF new_qty <= 0 THEN DelLine(items, pid)
                          ELSE SetLine(items, pid, new_qty)
  ELSE SetLine(items, pid, quantity)

\* Cart.add_item
add_item(items, pid, quantity) ==
  IF HasLine(items, pid)
  THEN LET new_qty == QtyOf(items, pid) + quantity
       IN IF new_qty <= 0 THEN DelLine(items, pid)
                          ELSE SetLine(items, pid, new_qty)
  ELSE IF quantity > 0 THEN SetLine(items, pid, quantity) ELSE items

\* Cart.remove_item
remove_item(items, pid, quantity) == add_item(items, pid, -quantity)

\* Cart.update_quantity
update_quantity(items, pid, new_quantity) ==
  IF HasLine(items, pid)
  THEN IF new_quantity > 0 THEN SetLine(items, pid, new_quantity)
                           ELSE DelLine(items, pid)
  ELSE items

\* quantities a caller passes to the cart's methods
EditQty == (-MaxCartQty)..MaxCartQty

\* a method of the cart ran between two calls of OrderServices and left
\* cart.items as items. The dict is changed in place, so an order whose items
\* is that same dict object (not a dict of its own) shows the change too.
\* Quantities above MaxCartQty are left out.
Edit(pid, items) ==
  /\ Quiescent
  /\ \A k \in 1..Len(items) : items[k][2] <= MaxCartQty
  /\ the_cart' =
       [items |-> items,
        deleted |-> IF HasLine(the_cart.items, pid) /\ ~HasLine(items, pid)
                    THEN pid ELSE 0]
  /\ order_history' =
       [u \in Users |->
          [k \in 1..Len(order_history[u]) |->
             IF order_history[u][k].own_items
             THEN order_history[u][k]
             ELSE [order_history[u][k] EXCEPT !.items = items]]]
  /\ UNCHANGED <<stock, initial_stock, pc, frame, issued, refunds, pre, calls,
                 catalog, coupon, tx, lru>>

AddItem(pid, quantity) ==
  Edit(pid, add_item(the_cart.items, pid, quantity))

RemoveItem(pid, quantity) ==
  Edit(pid, remove_item(the_cart.items, pid, quantity))

UpdateQuantity(pid, new_quantity) ==
  Edit(pid, update_quantity(the_cart.items, pid, new_quantity))

\* Cart.clear
Clear == Edit(0, <<>>)

CartAdd == \E pid \in Products, quantity \in EditQty : AddItem(pid, quantity)
CartRemove == \E pid \in Products, quantity \in EditQty : RemoveItem(pid, quantity)
CartUpdate ==
  \E pid \in Products, quantity \in EditQty : UpdateQuantity(pid, quantity)

\* submit_order is given the cart object as it is now
CartSubmit(t) ==
  \E u \in ConcUsers :
    /\ calls < CartCalls /\ Quiescent /\ FirstFree(t)
    /\ SubmitOrder(t, u, the_cart.items, RequiredFields) /\ Observe

CartCancel(t) ==
  \E u \in ConcUsers, order_id \in ConcOrderIds :
    /\ calls < CartCalls /\ Quiescent /\ FirstFree(t)
    /\ CancelOrder(t, u, order_id) /\ Observe

\* one requester and one cart: the cart's methods are called between
\* sequential calls of submit_order (on that cart) and cancel_order
CartNext ==
  \/ \E t \in Threads : CartSubmit(t) \/ CartCancel(t) \/ Step(t)
  \/ CartAdd \/ CartRemove \/ CartUpdate \/ Clear

\* every product is created with the largest stock
FullStockInit == Init /\ initial_stock = [p \in Products |-> MaxStock]

CartSpec == FullStockInit /\ [][CartNext]_vars

\* ------------------------------------------------------------ LRUCache
\* keys of an OrderedDict given as its entries <<key, value>>, oldest first
KeysOf(c) == {c[k][1] : k \in 1..Len(c)}

\* self.cache[key]
ValueOf(c, key) == c[CHOOSE k \in 1..Len(c) : c[k][1] = key][2]

\* OrderedDict.move_to_end(key)
move_to_end(c, key) ==
  SelectSeq(c, LAMBDA e : e[1] # key) \o SelectSeq(c, LAMBDA e : e[1] = key)

\* self.cache[key] = value: a present key keeps its place, a new one goes last
SetItem(c, key, value) ==
  IF key \in KeysOf(c)
  THEN [k \in 1..Len(c) |-> IF c[k][1] = key THEN <<key, value>> ELSE c[k]]
  ELSE Append(c, <<key, value>>)

\* capacities the constructor is given
Capacities == (-1)..MaxCapacity

\* LRUCache(capacity)
LRUCacheInit(capacity) ==
  /\ ~lru.built
  /\ lru' = [NoCache EXCEPT !.built = TRUE, !.capacity = capacity]
  /\ UNCHANGED <<Services, pre, calls, catalog, coupon, tx, the_cart>>

\* variant of Get: a hit returns the value and leaves the entry where it is
GetNoMove(key) ==
  /\ lru.built /\ lru.clock < MaxOps
  /\ lru' =
       IF key \notin KeysOf(lru.cache)
       THEN [lru EXCEPT !.clock = @ + 1,
                        !.last = [op |-> "get", key |-> key, ret |-> NoValue,
                                  popped |-> 0]]
       ELSE [lru EXCEPT !.used[key] = lru.clock + 1,
                        !.clock = @ + 1,
                        !.last = [op |-> "get", key |-> key,
                                  ret |-> ValueOf(lru.cache, key), popped |-> 0]]
  /\ UNCHANGED <<Services, pre, calls, catalog, coupon, tx, the_cart>>

\* LRUCache.get
Get(key) ==
  /\ lru.built /\ lru.clock < MaxOps
  /\ lru' =
       IF key \notin KeysOf(lru.cache)
       THEN [lru EXCEPT !.clock = @ + 1,
                        !.last = [op |-> "get", key |-> key, ret |-> NoValue,
                                  popped |-> 0]]
       ELSE [lru EXCEPT !.cache = move_to_end(@, key),
                        !.used[key] = lru.clock + 1,
                        !.clock = @ + 1,
                        !.last = [op |-> "get", key |-> key,
                                  ret |-> ValueOf(lru.cache, key), popped |-> 0]]
  /\ UNCHANGED <<Services, pre, calls, catalog, coupon, tx, the_cart>>

\* variant of Set: nothing is taken out when the capacity is exceeded
SetNoEvict(key, value) ==
  /\ lru.built /\ lru.clock < MaxOps
  /\ LET moved == IF key \in KeysOf(lru.cache) THEN move_to_end(lru.cache, key)
                                              ELSE lru.cache
     IN lru' = [lru EXCEPT !.cache = SetItem(moved, key, value),
                           !.used[key] = lru.clock + 1,
                           !.clock = @ + 1,
                           !.last = [op |-> "set", key |-> key, ret |-> NoValue,
                                     popped |-> 0]]
  /\ UNCHANGED <<Services, pre, calls, catalog, coupon, tx, the_cart>>

\* LRUCache.set; popitem(last=False) takes the first entry out
Set(key, value) ==
  /\ lru.built /\ lru.clock < MaxOps
  /\ LET moved == IF key \in KeysOf(lru.cache) THEN move_to_end(lru.cache, key)
                                              ELSE lru.cache
         stored == SetItem(moved, key, value)
         over == Len(stored) > lru.capacity
     IN lru' = [lru EXCEPT !.cache = IF over THEN Tail(stored) ELSE stored,
                           !.used[key] = lru.clock + 1,
                           !.clock = @ + 1,
                           !.last = [op |-> "set", key |-> key, ret |-> NoValue,
                                     popped |-> IF over THEN stored[1][1] ELSE 0]]
  /\ UNCHANGED <<Services, pre, calls, catalog, coupon, tx, the_cart>>

CacheNew == \E capacity \in Capacities : LRUCacheInit(capacity)
CacheGet == \E key \in Keys : Get(key)
CacheSet == \E key \in Keys, value \in Values : Set(key, value)

\* one cache, built once and then given get and set calls
LruNext == CacheNew \/ CacheGet \/ CacheSet

LruSpec == FullStockInit /\ [][LruNext]_vars

\* ------------------------------------------------------------- accounting
\* positions <<user, k>> of the stored orders
Stored == UNION {{u} \X (1..Len(order_history[u])) : u \in Users}
OrderAt(pos) == order_history[pos[1]][pos[2]]

RECURSIVE SumOver(_, _)
SumOver(S, f) ==
  IF S = {} THEN 0
  ELSE LET x == CHOOSE y \in S : TRUE IN f[x] + SumOver(S \ {x}, f)

\* units of p held by stored orders that are not Cancelled
HeldByOrders(p) ==
  SumOver(Stored, [pos \in Stored |->
                    IF OrderAt(pos).status = "Cancelled" THEN 0
                    ELSE QtyOf(OrderAt(pos).items, p)])

\* units of p a running call holds: the reserved list of a submission, or what
\* a release loop (compensation, cancellation) has still to give back
HeldInFlight(t, p) ==
  LET f == frame[t]
  IN IF pc[t] \in {"reserve_stock", "deduct_stock", "deduct_load", "deduct_store",
                  "process_payment", "create_order", "append_order"}
     THEN QtyOf(f.reserved, p)
     ELSE IF pc[t] \in {"restock_load", "restock_store"}
          THEN QtyOf(SubSeq(f.rel, f.j, Len(f.rel)), p)
          ELSE 0

HeldByCalls(p) == SumOver(Threads, [t \in Threads |-> HeldInFlight(t, p)])

\* reversed(seq)
Reverse(seq) == [k \in 1..Len(seq) |-> seq[Len(seq) - k + 1]]

\* orders carrying payment id r
OrdersPaidBy(r) == Cardinality({pos \in Stored : OrderAt(pos).payment_ref = r})

\* ------------------------------------------------------------------ claims

\* C1: whenever no call is running, every unit missing from stock is held by a
\* stored, not Cancelled order that carries a payment id, and every payment id
\* the gateway returned is carried by exactly one stored order.
C1_QuiescentConsistency ==
  Quiescent =>
    /\ \A p \in Products : initial_stock[p] - stock[p] = HeldByOrders(p)
    /\ \A pos \in Stored : OrderAt(pos).payment_ref \in PayRefs
    /\ \A r \in PayRefs : issued[r] = OrdersPaidBy(r)

\* C2: conservation at every instant of any interleaving: stock plus the units
\* held by not Cancelled orders plus the units running calls hold equals the
\* initial stock, for every product.
C2_Conservation ==
  \A p \in Products :
    stock[p] + HeldByOrders(p) + HeldByCalls(p) = initial_stock[p]

\* C3: no oversell: the units of a product held by committed, not Cancelled
\* orders never exceed its initial stock (with stock 1 and two submissions of
\* one unit, at most one order is stored).
C3_NoOversell ==
  \A p \in Products : HeldByOrders(p) <= initial_stock[p]

\* C4: a reserve_stock call that returns True has reduced the product's stock
\* by exactly its quantity in its check-then-deduct step.
C4_ReserveAtomic ==
  [][\A t \in Threads :
       Len(frame'[t].reserved) > Len(frame[t].reserved) =>
         LET line == frame[t].cart[frame[t].i]
         IN stock'[line[1]] = stock[line[1]] - line[2]]_vars

\* C5: the available quantity of every product is never negative.
C5_StockNonNegative == \A p \in Products : stock[p] >= 0

\* C6: sequential calls: a submit_order that fails because a line could not be
\* reserved or because the payment was declined leaves every product's stock
\* as it was before the call.
C6_CompensationComplete ==
  \A t \in Threads :
    ( /\ pc[t] = "done"
      /\ frame[t].op = "submit"
      /\ frame[t].result = "None"
      /\ frame[t].why \in {"OutOfStock", "PaymentDeclined"} )
    => stock = pre.stock

\* a submission failed at its second line after reserving the first, and the
\* stock is back at its value before the call
C6_Witness ==
  \E t \in Threads :
    /\ pc[t] = "done" /\ frame[t].op = "submit" /\ frame[t].result = "None"
    /\ frame[t].why = "OutOfStock"
    /\ Len(frame[t].reserved) = 1 /\ Len(frame[t].cart) = 2
    /\ stock = pre.stock

\* C7: every order stored in a user's order_history carries a payment id that
\* process_payment returned, and a submission whose payment failed stored none.
C7_OrdersCarryPaymentRef ==
  /\ \A pos \in Stored :
       /\ OrderAt(pos).payment_ref \in PayRefs
       /\ issued[OrderAt(pos).payment_ref] >= 1
  /\ \A t \in Threads :
       (pc[t] = "done" /\ frame[t].why = "PaymentDeclined")
       => TotalOrders = pre.orders

\* C8: the quantities held by every stored order that is not Cancelled are
\* deducted from stock, and releases never give back more than was reserved:
\* no product's stock rises above its initial value.
C8_HeldQuantitiesDeducted ==
  \A p \in Products :
    /\ initial_stock[p] - stock[p] >= HeldByOrders(p)
    /\ stock[p] <= initial_stock[p]

\* C9: process_payment is invoked only when reserve_stock has returned for
\* every line of the cart; an attempt that failed to reserve a line made no
\* charge attempt.
C9_ReserveBeforePayment ==
  \A t \in Threads :
    /\ (pc[t] = "process_payment" \/ frame[t].charged)
         => frame[t].reserved = frame[t].cart
    /\ frame[t].why = "OutOfStock" => ~frame[t].charged

\* a charge was attempted for a two-line cart, both lines reserved before it
C9_Witness ==
  \E t \in Threads :
    /\ frame[t].charged
    /\ Len(frame[t].cart) = 2
    /\ frame[t].reserved = frame[t].cart

\* C10: sequential calls: cancel_order on an order that is not Cancelled goes
\* on to cancel it and returns True; cancel_order on an order that is already
\* Cancelled returns False in the same step and changes neither stock, nor any
\* order, nor the refunds made.
C10_CancelIdempotent ==
  [][\A t \in Threads :
       /\ (pc[t] = "idle" /\ frame'[t].op = "cancel") =>
            LET f == frame'[t]
                k == FindOrder(order_history[f.user], f.order_id)
            IN k # NoOrder =>
                 IF order_history[f.user][k].status = "Cancelled"
                 THEN /\ pc'[t] = "done" /\ f.result = "False"
                      /\ stock' = stock /\ refunds' = refunds
                      /\ order_history' = order_history
                 ELSE pc'[t] = "update_status"
       /\ (pc[t] = "refund" /\ pc'[t] = "done") =>
            /\ frame'[t].result = "True"
            /\ order_history'[frame[t].user][frame[t].order].status = "Cancelled"
    ]_vars

\* the second cancel_order of an order returned False; stock and refunds are
\* what the caller saw before that call
C10_Witness ==
  \E t \in Threads :
    /\ pc[t] = "done" /\ frame[t].op = "cancel"
    /\ frame[t].why = "OrderAlreadyCancelled" /\ frame[t].result = "False"
    /\ OrderAt(<<frame[t].user, frame[t].order>>).status = "Cancelled"
    /\ stock = pre.stock /\ Len(refunds) = pre.refunds

\* C11: two overlapping cancel_order calls for one order: at most one of them
\* gets past the status guard, so the order's quantities are released at most
\* once, at most one call returns True and one refund at most is attempted.
C11_CancelReleasesOnce ==
  LET PastGuard(t) ==
        /\ frame[t].op = "cancel"
        /\ \/ pc[t] \in {"update_status", "restock_load", "restock_store", "refund"}
           \/ pc[t] = "done" /\ frame[t].result = "True"
  IN ~ \E t1, t2 \in Threads :
         /\ t1 # t2
         /\ PastGuard(t1) /\ PastGuard(t2)
         /\ frame[t1].user = frame[t2].user
         /\ frame[t1].order = frame[t2].order

\* C12: sequential calls: a submit_order that returns an order has taken the
\* cart's quantities from stock, and a cancel_order that returns True has put
\* the order's quantities back and left the order stored as Cancelled; a
\* submission directly followed by its cancellation ends with the stock the
\* products had before the submission.
C12_SubmitCancelRoundTrip ==
  \A t \in Threads :
    LET f == frame[t] IN
    /\ (pc[t] = "done" /\ f.op = "submit" /\ f.result = "Order") =>
         \A p \in Products : stock[p] = pre.stock[p] - QtyOf(f.cart, p)
    /\ (pc[t] = "done" /\ f.op = "cancel" /\ f.result = "True") =>
         LET o == order_history[f.user][f.order]
         IN /\ o.status = "Cancelled"
            /\ \A p \in Products : stock[p] = pre.stock[p] + QtyOf(o.items, p)
            /\ calls = 2 => stock = initial_stock

\* a two-line order was submitted and then cancelled: stock is back at its
\* initial value and the order is stored as Cancelled
C12_Witness ==
  \E t \in Threads :
    /\ pc[t] = "done" /\ frame[t].op = "cancel" /\ frame[t].result = "True"
    /\ calls = 2
    /\ Len(order_history[frame[t].user][frame[t].order].items) = 2
    /\ order_history[frame[t].user][frame[t].order].status = "Cancelled"
    /\ stock = initial_stock

\* C13: sequential calls: when refund_payment fails inside cancel_order the
\* call still returns True (nothing propagates), the order is Cancelled and
\* every line's quantity is back in stock.
C13_RefundFailureKeepsCancellation ==
  \A t \in Threads :
    (pc[t] = "done" /\ frame[t].op = "cancel" /\ frame[t].why = "RefundFailed") =>
      LET o == order_history[frame[t].user][frame[t].order]
      IN /\ frame[t].result = "True"
         /\ o.status = "Cancelled"
         /\ \A p \in Products : stock[p] = pre.stock[p] + QtyOf(o.items, p)

\* a cancellation whose refund failed returned True with the order's units
\* released
C13_Witness ==
  \E t \in Threads :
    /\ pc[t] = "done" /\ frame[t].op = "cancel" /\ frame[t].why = "RefundFailed"
    /\ frame[t].result = "True"
    /\ order_history[frame[t].user][frame[t].order].items # <<>>
    /\ stock # pre.stock

\* C14: sequential calls: refund_payment is invoked only by a cancel_order
\* call whose order is already Cancelled and whose release loop has finished,
\* with that order's payment reference and total; the refunds made are as many
\* as the orders cancelled (less the cancellation that has not reached its
\* refund yet), so a failing cancel_order makes none.
C14_RefundOncePerCancelledOrder ==
  [][/\ refunds' # refunds =>
          \E t \in Threads :
            LET f == frame[t]
                o == order_history[f.user][f.order]
            IN /\ pc[t] = "refund" /\ f.op = "cancel"
               /\ o.status = "Cancelled"
               /\ f.rel = o.items /\ f.j > Len(f.rel)
               /\ o.payment_ref \in PayRefs
               /\ refunds' = Append(refunds, <<o.payment_ref, o.total>>)
     /\ Len(refunds') =
          Cardinality({pos \in UNION {{u} \X (1..Len(order_history'[u])) : u \in Users} :
                         order_history'[pos[1]][pos[2]].status = "Cancelled"})
          - Cardinality({t \in Threads :
                           /\ frame'[t].op = "cancel"
                           /\ pc'[t] \in {"restock_load", "restock_store", "refund"}})
    ]_vars

\* one order was cancelled and one refund was made, with its reference and total
C14_Witness ==
  /\ Len(refunds) = 1
  /\ \E t \in Threads :
       /\ pc[t] = "done" /\ frame[t].op = "cancel" /\ frame[t].result = "True"
       /\ LET o == order_history[frame[t].user][frame[t].order]
          IN /\ o.status = "Cancelled" /\ o.items # <<>>
             /\ refunds[1] = <<o.payment_ref, o.total>>

\* C15: sequential calls: a submit_order call ends by returning an order or
\* None, and when it does not return an order the stock is what it was before
\* the call (every reservation of the attempt was released).
C15_NoUncompensatedException ==
  \A t \in Threads :
    (pc[t] = "done" /\ frame[t].op = "submit") =>
      /\ frame[t].result \in {"Order", "None"}
      /\ frame[t].result # "Order" => stock = pre.stock

\* C16: sequential calls: a submit_order attempt on a non-empty cart moves
\* Start -> Reserving -> Charging -> Committed, leaving Reserving or Charging
\* for Compensating / Failed only; it ends either Committed (an order stored)
\* or Failed (None returned) with none of its reservations held.
C16_AttemptStateMachine ==
  [][\A t \in Threads :
       (frame'[t].op = "submit" /\ frame'[t].cart # <<>> /\ pc'[t] # pc[t]) =>
         LET Reserving == {"reserve_stock", "deduct_stock", "deduct_load", "deduct_store"}
             Compensating == {"restock_load", "restock_store"}
         IN /\ pc'[t] \in Reserving => pc[t] \in Reserving \cup {"idle"}
            /\ pc'[t] = "process_payment" => pc[t] \in Reserving
            /\ pc'[t] = "create_order" => pc[t] = "process_payment"
            /\ pc'[t] = "append_order" => pc[t] = "create_order"
            /\ pc'[t] \in Compensating =>
                 pc[t] \in Reserving \cup {"process_payment"} \cup Compensating
            /\ pc'[t] = "done" =>
                 \/ /\ frame'[t].result = "Order" /\ pc[t] = "append_order"
                 \/ /\ frame'[t].result = "None"
                    /\ pc[t] \in Reserving \cup {"process_payment"} \cup Compensating
                    /\ stock' = pre.stock
    ]_vars

\* C17: under any interleaving, the release loop of a failed submit_order gives
\* back exactly the lines this attempt deducted from stock.
C17_CompensationIsolation ==
  \A t \in Threads :
    (frame[t].op = "submit" /\ pc[t] \in {"restock_load", "restock_store"}) =>
      frame[t].rel = frame[t].deducted

\* C18: sequential calls: cancel_order with an order identity that the user's
\* order_history does not hold returns False at once; stock, every stored
\* order and the refunds made are unchanged.
C18_CancelUnknownOrderNoOp ==
  [][\A t \in Threads :
       LET f == frame'[t]
       IN (/\ pc[t] = "idle" /\ f.op = "cancel"
           /\ ~ \E k \in 1..Len(order_history[f.user]) :
                  order_history[f.user][k].order_id = f.order_id) =>
            /\ pc'[t] = "done"
            /\ f.result = "False" /\ f.why = "OrderNotFound"
            /\ stock' = stock
            /\ order_history' = order_history
            /\ refunds' = refunds
    ]_vars

\* cancel_order of an identity not stored returned False while the user holds
\* another order that is not Cancelled
C18_Witness ==
  \E t \in Threads :
    /\ pc[t] = "done" /\ frame[t].op = "cancel"
    /\ frame[t].why = "OrderNotFound" /\ frame[t].result = "False"
    /\ \E k \in 1..Len(order_history[frame[t].user]) :
         order_history[frame[t].user][k].status # "Cancelled"
    /\ stock = pre.stock /\ Len(refunds) = pre.refunds

\* C19: sequential calls: submit_order with an empty cart returns None at
\* once: no reserve_stock call, no charge, no order stored, stock unchanged.
C19_EmptyCartRejected ==
  [][\A t \in Threads :
       LET f == frame'[t]
       IN (pc[t] = "idle" /\ f.op = "submit" /\ f.cart = <<>>) =>
            /\ pc'[t] = "done"
            /\ f.result = "None" /\ f.why = "EmptyCart"
            /\ ~f.charged /\ f.reserved = <<>>
            /\ stock' = stock
            /\ order_history' = order_history
            /\ issued' = issued
            /\ refunds' = refunds
    ]_vars

\* an empty cart was submitted after an order had been stored: None came back,
\* stock and the stored orders are as before the call
C19_Witness ==
  \E t \in Threads :
    /\ pc[t] = "done" /\ frame[t].op = "submit" /\ frame[t].cart = <<>>
    /\ frame[t].result = "None" /\ frame[t].why = "EmptyCart"
    /\ TotalOrders = 1 /\ TotalOrders = pre.orders
    /\ stock = pre.stock

\* C20: submit_order never reaches reserve_stock with a quantity <= 0, and the
\* deduction made by reserve_stock never raises a product's stock.
C20_NoNonPositiveReservation ==
  [][\A t \in Threads :
       /\ pc'[t] = "reserve_stock" =>
            frame'[t].cart[frame'[t].i][2] > 0
       /\ (pc[t] = "deduct_store" /\ pc'[t] # pc[t]) =>
            \A p \in Products : stock'[p] <= stock[p]
    ]_vars

\* C21: sequential calls: reserve_stock goes on to deduct exactly when the
\* product is in the inventory and its stock is >= the quantity, and then
\* lowers that product's stock by the quantity and no other stock; otherwise
\* it raises OutOfStockError with every stock unchanged.
C21_ReserveContract ==
  [][\A t \in Threads :
       LET f == frame[t] IN
       /\ pc[t] = "reserve_stock" =>
            LET pid == f.cart[f.i][1]
                qty == f.cart[f.i][2]
            IN /\ stock' = stock
               /\ IF pid \in catalog /\ qty <= stock[pid]
                  THEN pc'[t] = "deduct_stock"
                  ELSE /\ frame'[t].why = "OutOfStock"
                       /\ frame'[t].reserved = f.reserved
                       /\ pc'[t] \in {"done", "restock_load"}
       /\ pc[t] \in {"deduct_stock", "deduct_load"} =>
            /\ stock' = stock
            /\ pc'[t] \in {"deduct_load", "deduct_store"}
       /\ pc[t] = "deduct_store" =>
            LET pid == f.cart[f.i][1]
                qty == f.cart[f.i][2]
            IN /\ stock' = [stock EXCEPT ![pid] = stock[pid] - qty]
               /\ frame'[t].reserved = Append(f.reserved, f.cart[f.i])
    ]_vars

\* a submission reserved its first line and failed at its second, whose
\* product has stock but is not in the inventory
C21_Witness ==
  \E t \in Threads :
    /\ pc[t] = "done" /\ frame[t].op = "submit" /\ frame[t].why = "OutOfStock"
    /\ Len(frame[t].cart) = 2 /\ Len(frame[t].reserved) = 1
    /\ frame[t].cart[2][1] \notin catalog
    /\ stock[frame[t].cart[2][1]] >= frame[t].cart[2][2]

\* C22: every release_stock call of a release loop adds the line's quantity
\* to the stock of the line's product and changes no other stock, whatever
\* remove_product / add_product calls came before.
C22_ReleaseAlwaysAdds ==
  [][\A t \in Threads :
       ( /\ pc[t] \in {"restock_load", "restock_store"}
         /\ \/ pc'[t] \notin {"restock_load", "restock_store"}
            \/ frame'[t].j # frame[t].j ) =>
         LET pid == frame[t].rel[frame[t].j][1]
             qty == frame[t].rel[frame[t].j][2]
         IN stock' = [stock EXCEPT ![pid] = stock[pid] + qty]
    ]_vars

\* C23: the status of every stored order is Placed or Cancelled.
C23_StatusPlacedOrCancelled ==
  \A pos \in Stored : OrderAt(pos).status \in {"Placed", "Cancelled"}

\* C24: sequential calls: no step removes an order from an order_history or
\* changes a stored order's identity, lines, total or payment reference, and
\* an order that is Cancelled stays Cancelled.
C24_OrderStoreAppendOnly ==
  [][\A u \in Users :
        /\ Len(order_history'[u]) >= Len(order_history[u])
        /\ \A k \in 1..Len(order_history[u]) :
             LET o == order_history[u][k]
                 n == order_history'[u][k]
             IN /\ n.order_id = o.order_id
                /\ n.items = o.items
                /\ n.total = o.total
                /\ n.payment_ref = o.payment_ref
                /\ o.status = "Cancelled" => n.status = "Cancelled"
    ]_vars

\* a user's first order was cancelled and a second one stored after it
C24_Witness ==
  \E u \in Users :
    /\ Len(order_history[u]) = 2
    /\ order_history[u][1].status = "Cancelled"
    /\ order_history[u][2].status # "Cancelled"

C26_ReserveAscendingIds ==
  \A t \in Threads :
    frame[t].op = "submit" =>
      \A a, b \in 1..Len(frame[t].reserved) :
        a < b => frame[t].reserved[a][1] < frame[t].reserved[b][1]

\* C27: sequential calls: process_payment with details lacking a required
\* field ends in PaymentFailedError and returns no payment id; with complete
\* details it returns a payment id or ends in PaymentFailedError; a declined
\* submission ends with the stock it started from.
C27_InvalidDetailsDeclined ==
  [][\A t \in Threads :
       pc[t] = "process_payment" =>
         LET f == frame[t]
             g == frame'[t]
             Declined == /\ g.why = "PaymentDeclined"
                         /\ g.payment_ref = NoRef
                         /\ issued' = issued
                         /\ pc'[t] = "done" => stock' = pre.stock
         IN IF validate_payment_info(f.payment_info)
            THEN \/ pc'[t] = "create_order" /\ g.payment_ref \in PayRefs
                 \/ Declined
            ELSE Declined
    ]_vars

\* C28: the amount charged is the cart's total at the charge, the order is
\* stored with a total equal to the amount charged for it, and the amount of
\* a refund is the stored total of the order refunded.
C28_RecordedTotalIsChargedAmount ==
  [][\A t \in Threads :
       /\ (pc[t] = "process_payment" /\ pc'[t] = "create_order") =>
            frame'[t].amount = CartTotal(coupon, frame[t].user, frame[t].cart)
       /\ (pc[t] = "append_order" /\ pc'[t] = "done") =>
            LET h == order_history'[frame[t].user]
            IN h[Len(h)].total = frame[t].amount
       /\ (pc[t] = "refund" /\ refunds' # refunds) =>
            refunds'[Len(refunds')][2] =
              order_history[frame[t].user][frame[t].order].total
    ]_vars

\* C29: when the body of the with-block raised, the rollback functions have
\* been called once each in reverse order of registration and the body's error
\* goes to the caller; when the body ended normally none was called.
C29_AllOrNothing ==
  /\ tx.phase = "propagated" =>
       /\ tx.called = Reverse(tx.rollback_funcs)
       /\ tx.error = "body"
  /\ tx.phase = "committed" => tx.called = <<>>

\* C30: at most max_uses stored orders got the coupon's discount (a total
\* below the subtotal of their lines).
C30_CouponHonouredAtMostMaxUses ==
  Cardinality({pos \in Stored :
                 OrderAt(pos).total < calculate_subtotal(OrderAt(pos).items)})
    <= MaxUses

\* C31: sequential calls: the step that ends a submit_order returning an order
\* leaves every product's stock at its value before the call minus the cart's
\* quantity for it (nothing for a product not in the cart), and appends one
\* order, holding the cart's lines, to the requester's order_history while no
\* other stored order is added, removed or replaced.
C31_SubmitFrame ==
  [][\A t \in Threads :
        (pc[t] # "done" /\ pc'[t] = "done" /\ frame'[t].op = "submit"
           /\ frame'[t].result = "Order") =>
          LET f == frame'[t]
              h == order_history[f.user]
              n == order_history'[f.user]
          IN /\ \A p \in Products : stock'[p] = pre.stock[p] - QtyOf(f.cart, p)
             /\ \A u \in Users \ {f.user} : order_history'[u] = order_history[u]
             /\ Len(n) = Len(h) + 1
             /\ SubSeq(n, 1, Len(h)) = h
             /\ n[Len(n)].items = f.cart
             /\ TotalOrders' = pre.orders + 1
    ]_vars

\* a submit_order of a two-line cart returned an order while the requester
\* already had one stored and a product of the cart had stock left
C31_Witness ==
  \E t \in Threads :
    /\ pc[t] = "done" /\ frame[t].op = "submit" /\ frame[t].result = "Order"
    /\ Len(frame[t].cart) = 2
    /\ Len(order_history[frame[t].user]) = 1
    /\ \E p \in Products : stock[p] < pre.stock[p]

\* C32: no two orders stored in the same user's order_history have the same
\* order_id.
C32_OrderIdsUnique ==
  \A u \in Users :
    \A j, k \in 1..Len(order_history[u]) :
      j # k => order_history[u][j].order_id # order_history[u][k].order_id

\* C33: no two stored orders that carry a payment reference carry the same
\* one.
C33_PaymentRefsDistinct ==
  \A a, b \in Stored :
    (a # b /\ OrderAt(a).payment_ref # NoRef) =>
      OrderAt(a).payment_ref # OrderAt(b).payment_ref

\* C34: sequential calls on one cart: the order appended by submit_order holds
\* the lines the cart has at that moment; no later step, in particular no
\* add_item, remove_item, update_quantity or clear on the cart, changes the
\* lines of a stored order; and a cancel_order that returns True has put back
\* exactly the quantities of the order's lines.
C34_OrderLinesAreSnapshot ==
  [][/\ \A u \in Users :
          \A k \in 1..Len(order_history[u]) :
            /\ Len(order_history'[u]) >= k
            /\ order_history'[u][k].items = order_history[u][k].items
     /\ \A t \in Threads :
          LET f == frame'[t] IN
          /\ (pc[t] = "append_order" /\ pc'[t] = "done") =>
               /\ order_history'[f.user][Len(order_history'[f.user])].items
                    = the_cart.items
               /\ the_cart' = the_cart
          /\ (pc[t] # "done" /\ pc'[t] = "done" /\ f.op = "cancel"
                /\ f.result = "True") =>
               \A p \in Products :
                 stock'[p] = pre.stock[p]
                             + QtyOf(order_history[f.user][f.order].items, p)
    ]_vars

\* an order of two lines was committed, the cart was changed afterwards, and
\* the order's cancellation has put the two quantities back
C34_Witness ==
  \E t \in Threads :
    /\ pc[t] = "done" /\ frame[t].op = "cancel" /\ frame[t].result = "True"
    /\ Len(order_history[frame[t].user][frame[t].order].items) = 2
    /\ order_history[frame[t].user][frame[t].order].items # the_cart.items
    /\ stock = initial_stock

\* C36: a cart that starts empty and is changed only by add_item, remove_item,
\* update_quantity and clear never holds a line whose quantity is zero or
\* less, and holds at most one line for a product.
C36_CartQuantitiesPositive ==
  /\ \A k \in 1..Len(the_cart.items) : the_cart.items[k][2] > 0
  /\ \A j, k \in 1..Len(the_cart.items) :
       the_cart.items[j][1] = the_cart.items[k][1] => j = k

\* the latest call took a line out of a cart that still holds another line
C36_Witness ==
  /\ the_cart.deleted \in Products
  /\ ~HasLine(the_cart.items, the_cart.deleted)
  /\ Len(the_cart.items) = 1

\* C35: sequential calls: no step of a cancel_order(user, order_id) changes
\* the order_history of another user; and a cancel_order whose order_id is
\* held by another user but not by user ends at once with False, with stock
\* and every stored order (status included) as they were.
C35_CancelOnlyOwnOrders ==
  [][\A t \in Threads :
       frame'[t].op = "cancel" =>
         LET f == frame'[t]
             HeldBy(v) == \E k \in 1..Len(order_history[v]) :
                            order_history[v][k].order_id = f.order_id
         IN /\ \A v \in Users \ {f.user} : order_history'[v] = order_history[v]
            /\ (pc[t] = "idle" /\ ~HeldBy(f.user)
                  /\ \E v \in Users \ {f.user} : HeldBy(v)) =>
                 /\ pc'[t] = "done" /\ f.result = "False"
                 /\ stock' = stock
                 /\ order_history' = order_history
    ]_vars

\* cancel_order was called with a user who does not hold the identity while
\* another user holds a Paid order of that identity; it returned False and the
\* order is still Paid
C35_Witness ==
  \E t \in Threads :
    /\ pc[t] = "done" /\ frame[t].op = "cancel" /\ frame[t].result = "False"
    /\ frame[t].why = "OrderNotFound"
    /\ \E v \in Users \ {frame[t].user} :
         \E k \in 1..Len(order_history[v]) :
           /\ order_history[v][k].order_id = frame[t].order_id
           /\ order_history[v][k].status = "Paid"
    /\ stock = pre.stock
    /\ \E p \in Products : stock[p] < initial_stock[p]

\* C37: when a set of a key that is not stored makes the cache exceed its
\* capacity, exactly one key is taken out, it is the one whose last hit or set
\* is oldest among the keys stored then, and with a capacity of one or more
\* the key just set is still stored, with the value given.
C37_EvictsLeastRecentlyUsed ==
  [][(/\ lru.built /\ lru'.last.op = "set" /\ lru'.clock = lru.clock + 1
      /\ lru'.last.key \notin KeysOf(lru.cache)
      /\ Len(lru.cache) + 1 > lru.capacity) =>
       LET key == lru'.last.key
           before == KeysOf(lru.cache) \cup {key}
           after == KeysOf(lru'.cache)
       IN /\ after \subseteq before
          /\ Cardinality(before \ after) = 1
          /\ \A r \in before \ after :
               \A o \in before : lru'.used[r] <= lru'.used[o]
          /\ \A k \in after \ {key} :
               ValueOf(lru'.cache, k) = ValueOf(lru.cache, k)
          /\ lru.capacity >= 1 => key \in after
    ]_vars

\* a full cache of capacity two was given a third key; the key taken out was
\* not the one just set, and a key set before it is still stored because it
\* was used again in between
C37_Witness ==
  /\ lru.built /\ lru.capacity = 2 /\ Len(lru.cache) = 2
  /\ lru.last.op = "set" /\ lru.last.popped # 0
  /\ lru.last.popped # lru.last.key
  /\ lru.cache[2][1] = lru.last.key
  /\ lru.used[lru.cache[1][1]] > lru.used[lru.last.popped]
  /\ lru.clock = 4

\* C38: a cache built with a capacity c >= 0 never holds more than c keys, and
\* a get leaves the stored keys and their values as they were.
C38_CapacityBound ==
  [][/\ (lru'.built /\ lru'.capacity >= 0) => Len(lru'.cache) <= lru'.capacity
     /\ (lru.built /\ lru'.last.op = "get" /\ lru'.clock = lru.clock + 1) =>
          /\ Len(lru'.cache) = Len(lru.cache)
          /\ {lru'.cache[k] : k \in 1..Len(lru'.cache)}
               = {lru.cache[k] : k \in 1..Len(lru.cache)}
    ]_vars

\* a get hit an entry of a full cache of capacity two, which was not the most
\* recently used one, after another key had been evicted
C38_Witness ==
  /\ lru.built /\ lru.capacity = 2 /\ Len(lru.cache) = 2
  /\ lru.last.op = "get" /\ lru.last.ret # NoValue
  /\ lru.cache[2][1] = lru.last.key
  /\ lru.used[lru.cache[1][1]] > 1
  /\ \E k \in Keys : lru.used[k] > 0 /\ k \notin KeysOf(lru.cache)

====
